---- MODULE Spec2Model ----
(***************************************************************************)
(* Model of cmd/install.go of kubemngr: the `install` command and the      *)
(* DownloadKubectl pipeline, at the granularity of its system calls.       *)
(* Each invocation of the command is one OS process; the store directory   *)
(* $HOME/.kubemngr is shared by all of them.                               *)
(***************************************************************************)
EXTENDS Integers, Sequences, FiniteSets, TLC

(* ---------- bounds of the model ---------- *)
NProcs == 2
MaxAttempts == 3
MaxChunk == 2
MaxRacing == 2

(* ---------- program constants ---------- *)
UtsLen == 65
CreateMode == 420
ExecMode == 493

Procs == 1..NProcs
Versions == {"1.18.0", "v1.19.0"}
MaxIno == NProcs + Cardinality(Versions)
Inos == 1..MaxIno

NoIno == 0
NoFd == [ino |-> NoIno, off |-> 0]
Free == [bytes |-> <<>>, mode |-> 0]
NoResp == [status |-> 0, body |-> <<>>, pos |-> 0]
NoArg == "<none>"

(* ---------- strings as byte sequences ---------- *)
Linux == <<76, 105, 110, 117, 120>>
Darwin == <<68, 97, 114, 119, 105, 110>>
LinuxLower == <<108, 105, 110, 117, 120>>
Windows == <<87, 105, 110, 100, 111, 119, 115>>
X86_64 == <<120, 56, 54, 95, 54, 52>>
Arm == <<97, 114, 109>>
Arm64 == <<97, 114, 109, 54, 52>>
Aarch64Upper == <<65, 82, 77, 54, 52>>
I386 == <<105, 51, 56, 54>>
Amd64 == <<97, 109, 100, 54, 52>>

RawSysnames == {Linux, Darwin, LinuxLower, Windows, <<>>}
RawMachines == {X86_64, Arm, Arm64, Aarch64Upper, I386}

\* a C char array of UtsLen bytes holding s, NUL padded
Pad(s) == [i \in 1..UtsLen |-> IF i <= Len(s) THEN s[i] ELSE 0]

\* positions of s that hold a byte other than c
Kept(s, c) == {i \in 1..Len(s) : s[i] # c}
Lowest(S) == CHOOSE i \in S : \A j \in S : i <= j
Highest(S) == CHOOSE i \in S : \A j \in S : i >= j

\* bytes.Trim(s, "\x00"): s without its leading and trailing bytes c
Trim(s, c) ==
    LET k == Kept(s, c) IN IF k = {} THEN <<>> ELSE SubSeq(s, Lowest(k), Highest(k))

\* getOSInfo: the two fields of unix.Utsname as Go strings
getOSInfo(u) == [Sysname |-> Trim(u.Sysname, 0), Machine |-> Trim(u.Machine, 0)]

\* strings.ToLower on ASCII bytes
ToLower(s) == [i \in 1..Len(s) |-> IF s[i] \in 65..90 THEN s[i] + 32 ELSE s[i]]

LowerLetters == <<"a", "b", "c", "d", "e", "f", "g", "h", "i", "j", "k", "l", "m",
                  "n", "o", "p", "q", "r", "s", "t", "u", "v", "w", "x", "y", "z">>
UpperLetters == <<"A", "B", "C", "D", "E", "F", "G", "H", "I", "J", "K", "L", "M",
                  "N", "O", "P", "Q", "R", "S", "T", "U", "V", "W", "X", "Y", "Z">>
Digits == <<"0", "1", "2", "3", "4", "5", "6", "7", "8", "9">>

Chr(b) == IF b \in 97..122 THEN LowerLetters[b - 96]
          ELSE IF b \in 65..90 THEN UpperLetters[b - 64]
          ELSE IF b \in 48..57 THEN Digits[b - 47]
          ELSE IF b = 95 THEN "_" ELSE "?"

\* the %v verb applied to a Go string
RECURSIVE Text(_)
Text(s) == IF s = <<>> THEN "" ELSE Chr(Head(s)) \o Text(Tail(s))

\* Sprintf with the last two arguments in the wrong order
SprintfSwapped(version, sysArg, machineArg) ==
    "https://storage.googleapis.com/kubernetes-release/release/" \o version
        \o "/bin/" \o machineArg \o "/" \o sysArg \o "/kubectl"

\* fmt.Sprintf of the download url
Sprintf(version, sysArg, machineArg) ==
    "https://storage.googleapis.com/kubernetes-release/release/" \o version
        \o "/bin/" \o sysArg \o "/" \o machineArg \o "/kubectl"

(* ---------- download sources ---------- *)
ElfBody == <<127, 69, 76, 70, 2>>
GzipBody == <<31, 139, 8, 0>>
HtmlBody == <<60, 63, 120, 109>>
Responses == {[status |-> 200, body |-> ElfBody, pos |-> 0],
              [status |-> 200, body |-> GzipBody, pos |-> 0],
              [status |-> 404, body |-> HtmlBody, pos |-> 0],
              [status |-> 404, body |-> GzipBody, pos |-> 0],
              [status |-> 200, body |-> <<>>, pos |-> 0]}

HasPrefix(buf, magic) == Len(buf) >= Len(magic) /\ SubSeq(buf, 1, Len(magic)) = magic

\* filetype.IsArchive: the leading bytes carry a known archive/binary signature
IsArchive(buf) == HasPrefix(buf, <<127, 69, 76, 70>>) \/ HasPrefix(buf, <<31, 139, 8>>)

(* ---------- state ---------- *)
VARIABLES
    utsname,    \* what uname(2) reports on this host
    paths,      \* store directory: version -> inode of kubectl-<version>, or NoIno
    inodes,     \* inode -> [bytes, mode]
    attempts,   \* invocations of the command so far
    pc,         \* per process: the next step of the invocation
    version,    \* per process: args[0]
    out,        \* per process: the file opened by os.Create
    sys,        \* per process: local sys
    machine,    \* per process: local machine
    resp,       \* per process: the http response, pos bytes of body consumed
    counter,    \* per process: WriteCounter.Total
    chunk,      \* per process: bytes read by io.Copy and not yet written to out
    buf,        \* per process: result of ioutil.ReadFile
    err,        \* per process: why the invocation failed
    requests,   \* per process: urls given to http.Get
    sizes,      \* per process: len(p) of each WriteCounter.Write call
    reports,    \* per process: totals printed by PrintProgress
    ops,        \* per process: calls made by this invocation, in order
    installed   \* versions for which some invocation has returned nil

vars == <<utsname, paths, inodes, attempts, pc, version, out, sys, machine, resp,
          counter, chunk, buf, err, requests, sizes, reports, ops, installed>>

disk == <<paths, inodes>>

Terminal == {"done", "failed", "usage"}

Exists(v) == paths[v] # NoIno
FileOf(v) == inodes[paths[v]]

\* inodes still linked in the store or held open by a process
Referenced(ps, fds) == {ps[v] : v \in Versions} \cup {fds[p].ino : p \in Procs}

\* the kernel frees an inode once nothing refers to it
Reclaim(ino, ps, fds) ==
    [i \in Inos |-> IF i \in Referenced(ps, fds) THEN ino[i] ELSE Free]

FreshIno == CHOOSE i \in Inos : i \notin Referenced(paths, out) /\
                \A j \in Inos : j \notin Referenced(paths, out) => i <= j

\* write(2) of data at offset off: a gap past the end reads as zero bytes
WriteAt(bytes, off, data) ==
    LET n == IF off + Len(data) > Len(bytes) THEN off + Len(data) ELSE Len(bytes)
    IN [i \in 1..n |-> IF i > off /\ i <= off + Len(data) THEN data[i - off]
                       ELSE IF i <= Len(bytes) THEN bytes[i] ELSE 0]

Init ==
    /\ utsname \in {[Sysname |-> Pad(s), Machine |-> Pad(m)] :
                        s \in RawSysnames, m \in RawMachines}
    /\ paths = [v \in Versions |-> NoIno]
    /\ inodes = [i \in Inos |-> Free]
    /\ attempts = 0
    /\ pc = [p \in Procs |-> "idle"]
    /\ version = [p \in Procs |-> NoArg]
    /\ out = [p \in Procs |-> NoFd]
    /\ sys = [p \in Procs |-> <<>>]
    /\ machine = [p \in Procs |-> <<>>]
    /\ resp = [p \in Procs |-> NoResp]
    /\ counter = [p \in Procs |-> 0]
    /\ chunk = [p \in Procs |-> <<>>]
    /\ buf = [p \in Procs |-> <<>>]
    /\ err = [p \in Procs |-> "none"]
    /\ requests = [p \in Procs |-> <<>>]
    /\ sizes = [p \in Procs |-> <<>>]
    /\ reports = [p \in Procs |-> <<>>]
    /\ ops = [p \in Procs |-> <<>>]
    /\ installed = {}

\* log.Fatal / os.Exit(1): the process ends, the kernel closes its files
Fatal(p, kind, ps) ==
    /\ pc' = [pc EXCEPT ![p] = "failed"]
    /\ err' = [err EXCEPT ![p] = kind]
    /\ out' = [out EXCEPT ![p] = NoFd]
    /\ paths' = ps
    /\ inodes' = Reclaim(inodes, ps, out')

Did(p, op) == ops' = [ops EXCEPT ![p] = Append(@, op)]

\* Run that takes a missing argument for a version instead of printing the usage
InvokeWithoutCheck(p) ==
    /\ pc[p] = "idle"
    /\ attempts < MaxAttempts
    /\ attempts' = attempts + 1
    /\ \E args \in {<<>>} \cup {<<v>> : v \in Versions \cup {""}}, home \in BOOLEAN :
          /\ version' = [version EXCEPT ![p] = IF Len(args) > 0 THEN args[1] ELSE NoArg]
          /\ IF version'[p] = ""
             THEN Fatal(p, "EmptyVersion", paths)
             ELSE IF ~home
             THEN Fatal(p, "NoHomeDir", paths)
             ELSE /\ pc' = [pc EXCEPT ![p] = "stat"]
                  /\ UNCHANGED <<err, out, disk>>
          /\ UNCHANGED ops
    /\ UNCHANGED <<installed, utsname, sys, machine, resp, counter, chunk, buf,
                   requests,
                   sizes, reports>>

\* installCmd.Run, then the entry of DownloadKubectl up to os.UserHomeDir
Invoke(p) ==
    /\ pc[p] = "idle"
    /\ attempts < MaxAttempts
    /\ attempts' = attempts + 1
    /\ \E args \in {<<>>} \cup {<<v>> : v \in Versions \cup {""}}, home \in BOOLEAN :
          IF Len(args) > 0
          THEN /\ version' = [version EXCEPT ![p] = args[1]]
               /\ IF args[1] = ""
                  THEN Fatal(p, "EmptyVersion", paths)
                  ELSE IF ~home
                  THEN Fatal(p, "NoHomeDir", paths)
                  ELSE /\ pc' = [pc EXCEPT ![p] = "stat"]
                       /\ UNCHANGED <<err, out, disk>>
               /\ UNCHANGED ops
          ELSE /\ pc' = [pc EXCEPT ![p] = "usage"]
               /\ Did(p, "Println")
               /\ UNCHANGED <<version, err, out, disk>>
    /\ UNCHANGED <<installed, utsname, sys, machine, resp, counter, chunk, buf,
                   requests,
                   sizes, reports>>

\* Stat whose result is not looked at
StatUnchecked(p) ==
    /\ pc[p] = "stat"
    /\ Did(p, "Stat")
    /\ pc' = [pc EXCEPT ![p] = "create"]
    /\ UNCHANGED <<err, out, disk>>
    /\ UNCHANGED <<installed, utsname, attempts, version, sys, machine, resp, counter,
                   chunk,
                   buf, requests, sizes, reports>>

\* os.Stat of the store path: err == nil means the version is installed
Stat(p) ==
    /\ pc[p] = "stat"
    /\ Did(p, "Stat")
    /\ IF Exists(version[p])
       THEN Fatal(p, "AlreadyInstalled", paths)
       ELSE /\ pc' = [pc EXCEPT ![p] = "create"]
            /\ UNCHANGED <<err, out, disk>>
    /\ UNCHANGED <<installed, utsname, attempts, version, sys, machine, resp, counter,
                   chunk,
                   buf, requests, sizes, reports>>

\* Create with O_EXCL: an existing file is reported, not truncated
CreateExclusive(p) ==
    /\ pc[p] = "create"
    /\ Did(p, "Create")
    /\ \E ok \in BOOLEAN :
          IF ~ok
          THEN Fatal(p, "FilesystemError", paths)
          ELSE IF Exists(version[p])
          THEN Fatal(p, "AlreadyInstalled", paths)
          ELSE /\ pc' = [pc EXCEPT ![p] = "uname"]
               /\ err' = err
               /\ out' = [out EXCEPT ![p] = [ino |-> FreshIno, off |-> 0]]
               /\ inodes' = [inodes EXCEPT
                               ![FreshIno] = [bytes |-> <<>>, mode |-> CreateMode]]
               /\ paths' = [paths EXCEPT ![version[p]] = FreshIno]
    /\ UNCHANGED <<installed, utsname, attempts, version, sys, machine, resp, counter,
                   chunk, buf, requests, sizes, reports>>

\* os.Create of the store path: O_CREAT|O_TRUNC, mode 0666 less the umask
Create(p) ==
    /\ pc[p] = "create"
    /\ Did(p, "Create")
    /\ \E ok \in BOOLEAN :
          IF ~ok
          THEN Fatal(p, "FilesystemError", paths)
          ELSE /\ pc' = [pc EXCEPT ![p] = "uname"]
               /\ err' = err
               /\ IF Exists(version[p])
                  THEN /\ out' = [out EXCEPT ![p] = [ino |-> paths[version[p]], off |-> 0]]
                       /\ inodes' = [inodes EXCEPT ![paths[version[p]]].bytes = <<>>]
                       /\ paths' = paths
                  ELSE /\ out' = [out EXCEPT ![p] = [ino |-> FreshIno, off |-> 0]]
                       /\ inodes' = [inodes EXCEPT
                                       ![FreshIno] = [bytes |-> <<>>, mode |-> CreateMode]]
                       /\ paths' = [paths EXCEPT ![version[p]] = FreshIno]
    /\ UNCHANGED <<installed, utsname, attempts, version, sys, machine, resp, counter,
                   chunk,
                   buf, requests, sizes, reports>>

SupportedOS(name) == ~(name # Linux /\ name # Darwin)
SupportedArch(name) == ~(name # Arm /\ name # Arm64 /\ name # X86_64)
\* the machine name lowercased, x86_64 included
MachineLowered(name) == ToLower(name)
MachineFor(name) == IF name = X86_64 THEN Amd64 ELSE ToLower(name)

\* getOSInfo, the two platform checks and the normalisation of sys and machine
Uname(p) ==
    /\ pc[p] = "uname"
    /\ Did(p, "Uname")
    /\ LET uname == getOSInfo(utsname) IN
          IF ~SupportedOS(uname.Sysname) \/ ~SupportedArch(uname.Machine)
          THEN /\ Fatal(p, "UnsupportedPlatform", paths)
               /\ UNCHANGED <<sys, machine>>
          ELSE /\ sys' = [sys EXCEPT ![p] = ToLower(uname.Sysname)]
               /\ machine' = [machine EXCEPT ![p] = MachineFor(uname.Machine)]
               /\ pc' = [pc EXCEPT ![p] = "get"]
               /\ UNCHANGED <<err, out, disk>>
    /\ UNCHANGED <<installed, utsname, attempts, version, resp, counter, chunk, buf,
                   requests,
                   sizes, reports>>

\* Get that takes a status outside 2xx for a failed request
GetChecksStatus(p) ==
    /\ pc[p] = "get"
    /\ Did(p, "Get")
    /\ requests' = [requests EXCEPT
                      ![p] = Append(@, Sprintf(version[p], Text(sys[p]), Text(machine[p])))]
    /\ \/ /\ Fatal(p, "NetworkError", paths)
          /\ UNCHANGED <<resp, counter>>
       \/ \E r \in Responses :
             /\ resp' = [resp EXCEPT ![p] = r]
             /\ counter' = [counter EXCEPT ![p] = 0]
             /\ IF r.status \in 200..299
                THEN /\ pc' = [pc EXCEPT ![p] = "read"]
                     /\ UNCHANGED <<err, out, disk>>
                ELSE Fatal(p, "NetworkError", paths)
    /\ UNCHANGED <<installed, utsname, attempts, version, sys, machine, chunk, buf, sizes,
                   reports>>

\* http.Get of the formatted url; then counter := &WriteCounter{}
Get(p) ==
    /\ pc[p] = "get"
    /\ Did(p, "Get")
    /\ requests' = [requests EXCEPT
                      ![p] = Append(@, Sprintf(version[p], Text(sys[p]), Text(machine[p])))]
    /\ \/ /\ Fatal(p, "NetworkError", paths)
          /\ UNCHANGED <<resp, counter>>
       \/ \E r \in Responses :
             /\ resp' = [resp EXCEPT ![p] = r]
             /\ counter' = [counter EXCEPT ![p] = 0]
             /\ pc' = [pc EXCEPT ![p] = "read"]
             /\ UNCHANGED <<err, out, disk>>
    /\ UNCHANGED <<installed, utsname, attempts, version, sys, machine, chunk, buf, sizes,
                   reports>>

\* Write that assigns where it should add
WriteAssigns(total, n) == n

\* WriteCounter.Write(p []byte) with len(p) = n: the new Total, which is printed.
\* Total is a uint64; no body comes near 2^64 bytes, so the sum is not reduced.
Write(total, n) == total + n

Remaining(r) == Len(r.body) - r.pos

\* Read that waits for more once the body has ended
ReadNeverEnds(p) ==
    /\ pc[p] = "read"
    /\ Remaining(resp[p]) > 0
    /\ Did(p, "Read")
    /\ \/ \E n \in 1..MaxChunk :
             /\ n <= Remaining(resp[p])
             /\ chunk' = [chunk EXCEPT
                            ![p] = SubSeq(resp[p].body, resp[p].pos + 1, resp[p].pos + n)]
             /\ resp' = [resp EXCEPT ![p].pos = @ + n]
             /\ counter' = [counter EXCEPT ![p] = Write(@, n)]
             /\ sizes' = [sizes EXCEPT ![p] = Append(@, n)]
             /\ reports' = [reports EXCEPT ![p] = Append(@, counter'[p])]
             /\ pc' = [pc EXCEPT ![p] = "write"]
             /\ UNCHANGED <<err, out, disk>>
       \/ /\ Fatal(p, "NetworkError", paths)
          /\ UNCHANGED <<resp, counter, chunk, sizes, reports>>
    /\ UNCHANGED <<installed, utsname, attempts, version, sys, machine, buf, requests>>

\* Read whose counter prints before it adds
ReadPrintsFirst(p) ==
    /\ pc[p] = "read"
    /\ Did(p, "Read")
    /\ \/ /\ Remaining(resp[p]) = 0
          /\ pc' = [pc EXCEPT ![p] = "readfile"]
          /\ UNCHANGED <<resp, counter, chunk, sizes, reports, err, out, disk>>
       \/ \E n \in 1..MaxChunk :
             /\ n <= Remaining(resp[p])
             /\ chunk' = [chunk EXCEPT
                            ![p] = SubSeq(resp[p].body, resp[p].pos + 1, resp[p].pos + n)]
             /\ resp' = [resp EXCEPT ![p].pos = @ + n]
             /\ counter' = [counter EXCEPT ![p] = Write(@, n)]
             /\ sizes' = [sizes EXCEPT ![p] = Append(@, n)]
             /\ reports' = [reports EXCEPT ![p] = Append(@, counter[p])]
             /\ pc' = [pc EXCEPT ![p] = "write"]
             /\ UNCHANGED <<err, out, disk>>
       \/ /\ Fatal(p, "NetworkError", paths)
          /\ UNCHANGED <<resp, counter, chunk, sizes, reports>>
    /\ UNCHANGED <<installed, utsname, attempts, version, sys, machine, buf, requests>>

\* one Read of the TeeReader by io.Copy: read the body, then hand what was
\* read to the counter, which prints the new total
Read(p) ==
    /\ pc[p] = "read"
    /\ Did(p, "Read")
    /\ \/ /\ Remaining(resp[p]) = 0
          /\ pc' = [pc EXCEPT ![p] = "readfile"]
          /\ UNCHANGED <<resp, counter, chunk, sizes, reports, err, out, disk>>
       \/ \E n \in 1..MaxChunk :
             /\ n <= Remaining(resp[p])
             /\ chunk' = [chunk EXCEPT
                            ![p] = SubSeq(resp[p].body, resp[p].pos + 1, resp[p].pos + n)]
             /\ resp' = [resp EXCEPT ![p].pos = @ + n]
             /\ counter' = [counter EXCEPT ![p] = Write(@, n)]
             /\ sizes' = [sizes EXCEPT ![p] = Append(@, n)]
             /\ reports' = [reports EXCEPT ![p] = Append(@, counter'[p])]
             /\ pc' = [pc EXCEPT ![p] = "write"]
             /\ UNCHANGED <<err, out, disk>>
       \/ /\ Fatal(p, "NetworkError", paths)
          /\ UNCHANGED <<resp, counter, chunk, sizes, reports>>
    /\ UNCHANGED <<installed, utsname, attempts, version, sys, machine, buf, requests>>

\* io.Copy writes the bytes just read to out, at the offset of the descriptor
WriteOut(p) ==
    /\ pc[p] = "write"
    /\ Did(p, "Write")
    /\ \/ /\ inodes' = [inodes EXCEPT
                          ![out[p].ino].bytes = WriteAt(@, out[p].off, chunk[p])]
          /\ out' = [out EXCEPT ![p].off = @ + Len(chunk[p])]
          /\ chunk' = [chunk EXCEPT ![p] = <<>>]
          /\ pc' = [pc EXCEPT ![p] = "read"]
          /\ UNCHANGED <<err, paths>>
       \/ /\ Fatal(p, "FilesystemError", paths)
          /\ UNCHANGED chunk
    /\ UNCHANGED <<installed, utsname, attempts, version, sys, machine, resp, counter,
                   buf,
                   requests, sizes, reports>>

\* ioutil.ReadFile of the store path; its error is dropped, buf is then empty
ReadFile(p) ==
    /\ pc[p] = "readfile"
    /\ Did(p, "ReadFile")
    /\ buf' = [buf EXCEPT ![p] = IF Exists(version[p]) THEN FileOf(version[p]).bytes
                                 ELSE <<>>]
    /\ pc' = [pc EXCEPT ![p] = "verify"]
    /\ UNCHANGED <<installed, utsname, attempts, version, sys, machine, resp, counter,
                   chunk,
                   requests, sizes, reports, err, out, disk>>

\* Verify that passes every file on
VerifyAcceptsAll(p) ==
    /\ pc[p] = "verify"
    /\ pc' = [pc EXCEPT ![p] = "chmod"]
    /\ UNCHANGED <<ops, err, out, disk>>
    /\ UNCHANGED <<installed, utsname, attempts, version, sys, machine, resp, counter,
                   chunk, buf, requests, sizes, reports>>

\* Verify that empties the store directory on a rejected file
VerifyClearsStore(p) ==
    /\ pc[p] = "verify"
    /\ IF ~IsArchive(buf[p])
       THEN /\ Did(p, "Remove")
            /\ Fatal(p, "InvalidBinaryContent", [v \in Versions |-> NoIno])
       ELSE /\ pc' = [pc EXCEPT ![p] = "chmod"]
            /\ UNCHANGED <<ops, err, out, disk>>
    /\ UNCHANGED <<installed, utsname, attempts, version, sys, machine, resp, counter,
                   chunk, buf, requests, sizes, reports>>

\* Verify that exits on a rejected file without removing it
VerifyKeepsFile(p) ==
    /\ pc[p] = "verify"
    /\ IF ~IsArchive(buf[p])
       THEN /\ UNCHANGED ops
            /\ Fatal(p, "InvalidBinaryContent", paths)
       ELSE /\ pc' = [pc EXCEPT ![p] = "chmod"]
            /\ UNCHANGED <<ops, err, out, disk>>
    /\ UNCHANGED <<installed, utsname, attempts, version, sys, machine, resp, counter,
                   chunk,
                   buf, requests, sizes, reports>>

\* filetype.IsArchive(buf); when it is false os.Remove of the store path, os.Exit(1)
Verify(p) ==
    /\ pc[p] = "verify"
    /\ IF ~IsArchive(buf[p])
       THEN /\ Did(p, "Remove")
            /\ Fatal(p, "InvalidBinaryContent", [paths EXCEPT ![version[p]] = NoIno])
       ELSE /\ pc' = [pc EXCEPT ![p] = "chmod"]
            /\ UNCHANGED <<ops, err, out, disk>>
    /\ UNCHANGED <<installed, utsname, attempts, version, sys, machine, resp, counter,
                   chunk,
                   buf, requests, sizes, reports>>

\* Chmod to 0744: execute for the owner alone
ChmodOwnerOnly(p) ==
    /\ pc[p] = "chmod"
    /\ Did(p, "Chmod")
    /\ IF Exists(version[p])
       THEN /\ inodes' = [inodes EXCEPT ![paths[version[p]]].mode = 484]
            /\ pc' = [pc EXCEPT ![p] = "rename"]
            /\ UNCHANGED <<err, out, paths>>
       ELSE Fatal(p, "FilesystemError", paths)
    /\ UNCHANGED <<installed, utsname, attempts, version, sys, machine, resp, counter,
                   chunk,
                   buf, requests, sizes, reports>>

\* os.Chmod of the store path to 0755
Chmod(p) ==
    /\ pc[p] = "chmod"
    /\ Did(p, "Chmod")
    /\ IF Exists(version[p])
       THEN /\ inodes' = [inodes EXCEPT ![paths[version[p]]].mode = ExecMode]
            /\ pc' = [pc EXCEPT ![p] = "rename"]
            /\ UNCHANGED <<err, out, paths>>
       ELSE Fatal(p, "FilesystemError", paths)
    /\ UNCHANGED <<installed, utsname, attempts, version, sys, machine, resp, counter,
                   chunk,
                   buf, requests, sizes, reports>>

\* os.Rename of the store path onto itself, then return nil: the process ends
Rename(p) ==
    /\ pc[p] = "rename"
    /\ Did(p, "Rename")
    /\ IF Exists(version[p])
       THEN /\ pc' = [pc EXCEPT ![p] = "done"]
            /\ out' = [out EXCEPT ![p] = NoFd]
            /\ inodes' = Reclaim(inodes, paths, out')
            /\ installed' = installed \cup {version[p]}
            /\ UNCHANGED <<err, paths>>
       ELSE /\ Fatal(p, "FilesystemError", paths)
            /\ UNCHANGED installed
    /\ UNCHANGED <<utsname, attempts, version, sys, machine, resp, counter, chunk,
                   buf, requests, sizes, reports>>

\* the process is gone; the next invocation of the command starts afresh
Exit(p) ==
    /\ pc[p] \in Terminal
    /\ pc' = [pc EXCEPT ![p] = "idle"]
    /\ version' = [version EXCEPT ![p] = NoArg]
    /\ sys' = [sys EXCEPT ![p] = <<>>]
    /\ machine' = [machine EXCEPT ![p] = <<>>]
    /\ resp' = [resp EXCEPT ![p] = NoResp]
    /\ counter' = [counter EXCEPT ![p] = 0]
    /\ chunk' = [chunk EXCEPT ![p] = <<>>]
    /\ buf' = [buf EXCEPT ![p] = <<>>]
    /\ err' = [err EXCEPT ![p] = "none"]
    /\ requests' = [requests EXCEPT ![p] = <<>>]
    /\ sizes' = [sizes EXCEPT ![p] = <<>>]
    /\ reports' = [reports EXCEPT ![p] = <<>>]
    /\ ops' = [ops EXCEPT ![p] = <<>>]
    /\ UNCHANGED <<installed, utsname, attempts, out, disk>>

\* the command is run from one shell: no invocation starts while another runs
InvokeAlone(p) ==
    /\ \A q \in Procs \ {p} : pc[q] = "idle"
    /\ Invoke(p)

NextSeq ==
    \E p \in Procs :
        \/ InvokeAlone(p)
        \/ Stat(p)
        \/ Create(p)
        \/ Uname(p)
        \/ Get(p)
        \/ Read(p)
        \/ WriteOut(p)
        \/ ReadFile(p)
        \/ Verify(p)
        \/ Chmod(p)
        \/ Rename(p)
        \/ Exit(p)

\* an invocation started from another shell while others may be running
Race(p) ==
    /\ attempts < MaxRacing
    /\ Invoke(p)

\* invocations from several shells interleave freely
Next ==
    \E p \in Procs :
        \/ Race(p)
        \/ Stat(p)
        \/ Create(p)
        \/ Uname(p)
        \/ Get(p)
        \/ Read(p)
        \/ WriteOut(p)
        \/ ReadFile(p)
        \/ Verify(p)
        \/ Chmod(p)
        \/ Rename(p)
        \/ Exit(p)

Spec == Init /\ [][NextSeq]_vars

\* the hosts on which interleaved invocations are explored
RacingHosts == {[Sysname |-> Pad(Linux), Machine |-> Pad(X86_64)],
                [Sysname |-> Pad(Windows), Machine |-> Pad(Arm64)]}

InitConc == Init /\ utsname \in RacingHosts

SpecConc == InitConc /\ [][Next]_vars

(* ---------- vocabulary of the properties ---------- *)

HasOp(p, op) == \E i \in 1..Len(ops[p]) : ops[p][i] = op

\* p takes a step of its own
Steps(p) == pc'[p] # pc[p]

Failed(p, kind) == pc[p] = "failed" /\ err[p] = kind

\* io.Copy has returned nil: the body was read to its end and written to out
Downloaded(p) == HasOp(p, "ReadFile") /\ resp[p].pos = Len(resp[p].body)

\* mode has the execute bit of owner, group and other
ExecAll(mode) == (mode \div 64) % 2 = 1 /\ (mode \div 8) % 2 = 1 /\ mode % 2 = 1

RECURSIVE Sum(_)
Sum(s) == IF s = <<>> THEN 0 ELSE Head(s) + Sum(Tail(s))

\* the vendor names of section 4.1, by raw name
VendorOS(raw) == CASE raw = Linux -> "linux"
                   [] raw = Darwin -> "darwin"
                   [] OTHER -> "unsupported"
VendorArch(raw) == CASE raw = X86_64 -> "amd64"
                     [] raw = Arm -> "arm"
                     [] raw = Arm64 -> "arm64"
                     [] OTHER -> "unsupported"

RawOS == Trim(utsname.Sysname, 0)
RawArch == Trim(utsname.Machine, 0)
HostOS == VendorOS(RawOS)
HostArch == VendorArch(RawArch)
HostSupported == HostOS # "unsupported" /\ HostArch # "unsupported"

\* failures of the invocation that precede the pipeline or come from the store
\* directory itself
EnvErrors == {"EmptyVersion", "NoHomeDir", "FilesystemError"}

(* ---------- C1 ---------- *)
\* C1: a file is present at the store path of a version only if its download
\* completed and the verifier accepted the content: the bytes are a whole
\* response body with a known signature, and no invocation that writes it is
\* still short of the verification.
C1_OnlyVerifiedAtFinalPath ==
    \A v \in Versions :
        Exists(v) =>
            /\ IsArchive(FileOf(v).bytes)
            /\ FileOf(v).bytes \in {r.body : r \in Responses}
            /\ \A p \in Procs :
                  version[p] = v => pc[p] \notin {"uname", "get", "read", "write",
                                                   "readfile", "verify"}

(* ---------- C2 ---------- *)
\* C2: when the file of the version exists at the existence check, the
\* invocation fails with AlreadyInstalled having done nothing but the check,
\* without any http request, and the store is left as it was.
C2_AlreadyInstalled ==
    [][\A p \in Procs :
          (pc[p] = "stat" /\ Exists(version[p]) /\ Steps(p)) =>
              /\ pc'[p] = "failed"
              /\ err'[p] = "AlreadyInstalled"
              /\ requests'[p] = <<>>
              /\ ops'[p] = <<"Stat">>
              /\ disk' = disk]_vars

C2_Witness ==
    \E p \in Procs :
        /\ Failed(p, "AlreadyInstalled")
        /\ Exists(version[p])
        /\ FileOf(version[p]).bytes = ElfBody
        /\ FileOf(version[p]).mode = ExecMode

(* ---------- C3 ---------- *)
\* C3: when the downloaded bytes carry no known signature, the verification
\* step fails the invocation with InvalidBinaryContent, and in that failed
\* state no file exists at the store path of the version.
C3_RejectedIsRemoved ==
    /\ [][\A p \in Procs :
             (pc[p] = "verify" /\ ~IsArchive(resp[p].body) /\ Steps(p)) =>
                 /\ pc'[p] = "failed"
                 /\ err'[p] = "InvalidBinaryContent"
                 /\ paths'[version[p]] = NoIno]_vars
    /\ [](\A p \in Procs : Failed(p, "InvalidBinaryContent") => ~Exists(version[p]))

C3_Witness ==
    \E p \in Procs :
        /\ Failed(p, "InvalidBinaryContent")
        /\ resp[p].status = 404
        /\ resp[p].body = HtmlBody
        /\ Downloaded(p)
        /\ ~Exists(version[p])

(* ---------- C4 ---------- *)
\* C4: an invocation that is done has its file at the store path, holding
\* exactly the bytes of the response body, which carry a known signature, with
\* the execute bit set for owner, group and other; and an invocation whose
\* copy of a body with a known signature has completed does not fail.
C4_DoneIsInstalled ==
    \A p \in Procs :
        /\ pc[p] = "done" =>
              /\ Exists(version[p])
              /\ Downloaded(p)
              /\ IsArchive(resp[p].body)
              /\ FileOf(version[p]).bytes = resp[p].body
              /\ ExecAll(FileOf(version[p]).mode)
        /\ (Downloaded(p) /\ IsArchive(resp[p].body)) =>
              pc[p] \in {"verify", "chmod", "rename", "done"}

C4_Witness ==
    \E p \in Procs :
        /\ pc[p] = "done"
        /\ version[p] = "1.18.0"
        /\ resp[p].body = ElfBody
        /\ FileOf("1.18.0").bytes = ElfBody
        /\ FileOf("1.18.0").mode = ExecMode

(* ---------- C5 ---------- *)
\* C5: on a host whose OS or architecture is not supported, an invocation
\* that entered the pipeline fails with UnsupportedPlatform and issues no http
\* request.
C5_UnsupportedFailsFirst ==
    ~HostSupported =>
        \A p \in Procs :
            /\ requests[p] = <<>>
            /\ pc[p] # "done"
            /\ (pc[p] = "failed" /\ err[p] \notin EnvErrors) =>
                  err[p] = "UnsupportedPlatform"

(* ---------- C6 ---------- *)
\* C6: after a failure with NetworkError no file remains at the store path of
\* the version.
C6_NetworkErrorLeavesNoFile ==
    \A p \in Procs : Failed(p, "NetworkError") => ~Exists(version[p])

(* ---------- C7 ---------- *)
\* C7: the totals printed during one download are the running sums of the
\* sizes written to the counter, one per write and in their order; they start
\* from 0 and never decrease.
C7_ProgressAdditive ==
    \A p \in Procs :
        /\ Len(reports[p]) = Len(sizes[p])
        /\ \A i \in 1..Len(reports[p]) : reports[p][i] = Sum(SubSeq(sizes[p], 1, i))
        /\ \A i \in 1..Len(reports[p]) :
              reports[p][i] >= (IF i = 1 THEN 0 ELSE reports[p][i - 1])
        /\ counter[p] = Sum(sizes[p])

C7_Witness ==
    \E p \in Procs : sizes[p] = <<1, 2, 2>> /\ reports[p] = <<1, 3, 5>>

(* ---------- C8 ---------- *)
\* C8: once the platform step has run, a supported host has sys and machine
\* set to the vendor names of its raw names ("Linux" -> "linux", "Darwin" ->
\* "darwin", "x86_64" -> "amd64", "arm" -> "arm", "arm64" -> "arm64"), and on
\* any other host the invocation has failed with UnsupportedPlatform with sys
\* and machine never set.
C8_PlatformMapping ==
    \A p \in Procs :
        HasOp(p, "Uname") =>
            LET os == HostOS
                arch == HostArch
            IN IF os # "unsupported" /\ arch # "unsupported"
               THEN /\ Text(sys[p]) = os
                    /\ Text(machine[p]) = arch
                    /\ ~Failed(p, "UnsupportedPlatform")
               ELSE /\ Failed(p, "UnsupportedPlatform")
                    /\ sys[p] = <<>>
                    /\ machine[p] = <<>>

C8_Witness ==
    \E p \in Procs :
        /\ pc[p] = "get"
        /\ RawOS = Darwin
        /\ RawArch = X86_64
        /\ Text(sys[p]) = "darwin"
        /\ Text(machine[p]) = "amd64"

(* ---------- C9 ---------- *)
\* C9: an invocation issues at most one http request, exactly one once it is
\* past http.Get, and its url is the base url followed by the version as
\* given, "bin", the vendor OS name, the vendor architecture name and
\* "kubectl"; for "1.18.0" on Linux/x86_64 it is .../release/1.18.0/bin/linux/amd64/kubectl.
C9_RequestURL ==
    \A p \in Procs :
        /\ Len(requests[p]) = (IF HasOp(p, "Get") THEN 1 ELSE 0)
        /\ \A i \in 1..Len(requests[p]) :
              /\ requests[p][i] =
                    "https://storage.googleapis.com/kubernetes-release/release/"
                        \o version[p] \o "/bin/" \o HostOS \o "/" \o HostArch
                        \o "/kubectl"
              /\ (version[p] = "1.18.0" /\ RawOS = Linux /\ RawArch = X86_64) =>
                    requests[p][i] = "https://storage.googleapis.com/kubernetes-release/release/1.18.0/bin/linux/amd64/kubectl"

C9_Witness ==
    \E p \in Procs :
        /\ pc[p] = "read"
        /\ requests[p] = <<"https://storage.googleapis.com/kubernetes-release/release/1.18.0/bin/linux/amd64/kubectl">>

(* ---------- C10 ---------- *)
\* C10: an invocation without arguments only prints the usage message: it
\* makes no existence check, creates no file, issues no request, leaves the
\* store as it was, and then ends.
C10_NoArgsIsUsage ==
    /\ [][\A p \in Procs :
             (pc[p] = "idle" /\ Steps(p) /\ version'[p] = NoArg) =>
                 /\ pc'[p] = "usage"
                 /\ ops'[p] = <<"Println">>
                 /\ disk' = disk]_vars
    /\ [][\A p \in Procs :
             (pc[p] = "usage" /\ Steps(p)) => (pc'[p] = "idle" /\ disk' = disk)]_vars
    /\ [](\A p \in Procs :
             pc[p] = "usage" =>
                 /\ ops[p] = <<"Println">>
                 /\ requests[p] = <<>>
                 /\ out[p] = NoFd
                 /\ err[p] = "none")

C10_Witness ==
    \E p \in Procs :
        /\ pc[p] = "usage"
        /\ Exists("1.18.0")
        /\ FileOf("1.18.0").bytes = ElfBody

(* ---------- C11 ---------- *)
\* the stage of the specified control flow a call belongs to
Stage(op) == CASE op = "Uname" -> 1
               [] op = "Stat" -> 2
               [] op \in {"Create", "Get", "Read", "Write"} -> 3
               [] op \in {"ReadFile", "Remove"} -> 4
               [] op \in {"Chmod", "Rename"} -> 5
               [] OTHER -> 0

\* C11: the calls of one invocation follow the specified control flow: the
\* platform is detected first, before the existence check and before the file
\* is created; then the download, then the verification, then the finalization.
C11_PlatformFirst ==
    \A p \in Procs :
        \A i \in 1..Len(ops[p]) :
            /\ (i = 1 /\ Stage(ops[p][i]) > 0) => ops[p][i] = "Uname"
            /\ i > 1 => Stage(ops[p][i - 1]) <= Stage(ops[p][i])

(* ---------- C12 ---------- *)
Last(s) == s[Len(s)]
Reports(p) == Len(reports'[p]) > Len(reports[p])

\* C12 as stated: at every progress report the total printed is the number of
\* bytes already written to the destination.
C12_ReportAfterWrite ==
    [][\A p \in Procs : Reports(p) => Last(reports'[p]) = out'[p].off]_vars

\* C12 as the code has it: the report of a chunk is made once the chunk is
\* read from the body and before it is written to the destination, so the total
\* printed is the number of bytes read so far, which is the bytes already
\* written plus the chunk in hand; that chunk is written before the next read.
C12_ReportBeforeWrite ==
    /\ [][\A p \in Procs :
             Reports(p) =>
                 /\ Last(reports'[p]) = resp'[p].pos
                 /\ Last(reports'[p]) = out'[p].off + Len(chunk'[p])
                 /\ chunk'[p] # <<>>
                 /\ pc'[p] = "write"
                 /\ disk' = disk]_vars
    /\ [](\A p \in Procs :
             /\ pc[p] = "read" => (chunk[p] = <<>> /\ out[p].off = resp[p].pos)
             /\ pc[p] = "write" =>
                   (chunk[p] # <<>> /\ out[p].off + Len(chunk[p]) = resp[p].pos))

C12_Witness ==
    \E p \in Procs :
        /\ pc[p] = "write"
        /\ reports[p] = <<2, 4>>
        /\ out[p].off = 2
        /\ Len(chunk[p]) = 2

(* ---------- C13 ---------- *)
\* C13: a response with a status outside 2xx is no NetworkError: its body is
\* copied to the destination like any other, what is verified is that body,
\* and after the copy the invocation fails only as InvalidBinaryContent;
\* NetworkError comes from http.Get returning no response or from a failed
\* read of the body.
C13_StatusIsNotAnError ==
    \A p \in Procs :
        /\ Failed(p, "NetworkError") =>
              \/ Last(ops[p]) = "Get" /\ resp[p] = NoResp
              \/ Last(ops[p]) = "Read" /\ resp[p] # NoResp
        /\ (resp[p] # NoResp /\ resp[p].status \notin 200..299) =>
              /\ pc[p] = "verify" => (buf[p] = resp[p].body /\ Downloaded(p))
              /\ (pc[p] = "failed" /\ HasOp(p, "ReadFile")) =>
                    (err[p] = "InvalidBinaryContent" /\ ~IsArchive(resp[p].body))

C13_Witness ==
    \E p \in Procs :
        /\ pc[p] = "verify"
        /\ resp[p].status = 404
        /\ buf[p] = HtmlBody
        /\ FileOf(version[p]).bytes = HtmlBody

(* ---------- C14 ---------- *)
\* C14: the existence check and the creation of the file are two steps, and
\* the creation does not check again: over a file that has appeared since the
\* check it does not fail as AlreadyInstalled, it truncates that file and
\* shares it; AlreadyInstalled comes from the check alone.
C14_CreateOverwrites ==
    /\ [][\A p \in Procs :
             (pc[p] = "create" /\ Steps(p) /\ Exists(version[p])) =>
                 \/ /\ pc'[p] = "failed"
                    /\ err'[p] = "FilesystemError"
                    /\ disk' = disk
                 \/ /\ pc'[p] = "uname"
                    /\ paths' = paths
                    /\ out'[p] = [ino |-> paths[version[p]], off |-> 0]
                    /\ inodes'[paths[version[p]]].bytes = <<>>]_vars
    /\ [](\A p \in Procs :
             /\ pc[p] = "create" => ops[p] = <<"Stat">>
             /\ Failed(p, "AlreadyInstalled") => ops[p] = <<"Stat">>)

\* two invocations of one version are both past the check and both copying,
\* on the same file, and the later creation has cut off what the other wrote
C14_Witness ==
    \E p, q \in Procs :
        /\ p # q
        /\ version[p] = version[q]
        /\ pc[p] \in {"read", "write"}
        /\ pc[q] \in {"read", "write"}
        /\ SubSeq(ops[p], 1, 2) = <<"Stat", "Create">>
        /\ SubSeq(ops[q], 1, 2) = <<"Stat", "Create">>
        /\ out[p].ino = paths[version[p]]
        /\ out[q].ino = out[p].ino
        /\ out[q].off >= 2
        /\ Len(FileOf(version[p]).bytes) = out[p].off
        /\ out[p].off < out[q].off

(* ---------- C15 ---------- *)
\* the state of the install state machine that a step belongs to
Phase(l) == CASE l = "idle" -> 0
              [] l = "stat" -> 1
              [] l \in {"create", "uname", "get", "read", "write"} -> 2
              [] l \in {"readfile", "verify"} -> 3
              [] l \in {"chmod", "rename"} -> 4
              [] l = "done" -> 5
              [] OTHER -> 6

\* C15: an invocation goes through Idle, Checking, Downloading, Verifying,
\* Finalizing, Done in that order, or from a state before Done to Failed; it is
\* done only after the verifier accepted the bytes read back and the mode was
\* set; and after Done or Failed it makes no call and no request: the process
\* only ends.
C15_StateOrder ==
    /\ [][\A p \in Procs :
             Steps(p) =>
                 \/ /\ pc[p] \in Terminal
                    /\ pc'[p] = "idle"
                    /\ ops'[p] = <<>>
                    /\ disk' = disk
                 \/ /\ pc[p] \notin Terminal
                    /\ pc'[p] = "failed"
                 \/ /\ pc[p] = "idle"
                    /\ pc'[p] = "usage"
                 \/ /\ pc[p] \notin Terminal
                    /\ pc'[p] \notin {"failed", "usage"}
                    /\ Phase(pc'[p]) \in {Phase(pc[p]), Phase(pc[p]) + 1}]_vars
    /\ [][\A p \in Procs :
             (pc[p] \in Terminal /\ ~Steps(p)) =>
                 (ops'[p] = ops[p] /\ requests'[p] = requests[p])]_vars
    /\ [](\A p \in Procs :
             pc[p] = "done" =>
                 /\ IsArchive(buf[p])
                 /\ HasOp(p, "ReadFile")
                 /\ SubSeq(ops[p], Len(ops[p]) - 1, Len(ops[p])) = <<"Chmod", "Rename">>
                 /\ Len(requests[p]) = 1
                 /\ err[p] = "none")

C15_Witness ==
    \E p \in Procs :
        /\ pc[p] = "done"
        /\ ops[p] = <<"Stat", "Create", "Uname", "Get", "Read", "Write", "Read", "Write",
                      "Read", "ReadFile", "Chmod", "Rename">>
        /\ buf[p] = GzipBody

(* ---------- C16 ---------- *)
\* the steps of a running invocation: each is a call that returns
Pipeline(p) ==
    \/ Stat(p)
    \/ Create(p)
    \/ Uname(p)
    \/ Get(p)
    \/ Read(p)
    \/ WriteOut(p)
    \/ ReadFile(p)
    \/ Verify(p)
    \/ Chmod(p)
    \/ Rename(p)

\* every blocking call of a running invocation eventually returns
SpecLive == Init /\ [][NextSeq]_vars /\ \A p \in Procs : WF_vars(Pipeline(p))

Running(p) == pc[p] \notin Terminal \cup {"idle"}

\* C16: when every call eventually returns, an invocation that entered the
\* pipeline ends in Done or Failed.
C16_Terminates ==
    \A p \in Procs : Running(p) ~> (pc[p] \in {"done", "failed"})

C16_Witness ==
    \E p \in Procs :
        /\ pc[p] = "done"
        /\ resp[p].body = ElfBody
        /\ sizes[p] = <<2, 1, 2>>

(* ---------- C17 ---------- *)
\* C17: an invocation fails with AlreadyInstalled only for a version that an
\* earlier invocation installed to the end.
C17_AlreadyInstalledOnlyAfterDone ==
    \A p \in Procs : Failed(p, "AlreadyInstalled") => version[p] \in installed

(* ---------- C18 ---------- *)
\* C18: the store file of a version that some invocation installed to the end
\* is not truncated, written or removed by any later step.
C18_InstalledIsKept ==
    [][\A v \in installed :
          /\ paths'[v] = paths[v]
          /\ paths[v] # NoIno => inodes'[paths[v]] = inodes[paths[v]]]_vars

(* ---------- C19 ---------- *)
\* C19: a step of an invocation leaves the store file of every version other
\* than its own as it was, and the file it holds open is never the store file
\* of another version.
C19_OtherVersionsUntouched ==
    /\ [][\A p \in Procs :
             Steps(p) =>
                 \A v \in Versions :
                     (v # version[p] /\ v # version'[p]) =>
                         /\ paths'[v] = paths[v]
                         /\ Exists(v) => inodes'[paths[v]] = inodes[paths[v]]]_vars
    /\ [](\A p \in Procs :
             \A v \in Versions :
                 (out[p].ino # NoIno /\ paths[v] = out[p].ino) => v = version[p])

C19_Witness ==
    \E p, q \in Procs :
        /\ version[p] = "1.18.0"
        /\ version[q] = "v1.19.0"
        /\ Failed(p, "InvalidBinaryContent")
        /\ ~Exists("1.18.0")
        /\ pc[q] = "read"
        /\ Exists("v1.19.0")
        /\ FileOf("v1.19.0").bytes = <<127, 69>>

====
